---------------------------- MODULE Spec2Model ----------------------------
(***************************************************************************)
(* The sentiment pipeline of dao-data-ai: the shared dual-model scorer     *)
(* (lib/sentiment_engine.py), the per-source analyzers (data_collection/   *)
(* and backend/sentiment_service/), and the cross-source aggregation       *)
(* endpoints over the sentiment_analysis table (backend/api/sentiment.py). *)
(*                                                                         *)
(* Numbers.  A model output (VADER compound, TextBlob polarity) is an      *)
(* integer count of 1/Grid steps in [-1,1].  A derived score is kept as    *)
(* an exact fraction [n, d] with d > 0 and compared by cross               *)
(* multiplication, so a threshold such as 0.2 is hit exactly.  A value the *)
(* code passes through round(x, 4) is an integer count of 1/Scale4.        *)
(***************************************************************************)
EXTENDS Integers, Sequences, FiniteSets, TLC

VARIABLES
    supabase,   \* api/sentiment.py: whether the Supabase client is configured
    store,      \* the sentiment_analysis table: rows in insertion order
    audit,      \* the audit_log table: the set of actions logged so far
    resp,       \* the answer of the last request or analyzer call on the store
    input,      \* the argument of the pure function under study
    output,     \* what the function returned for it
    proposals,  \* main.py: the proposals table, proposal_id -> its vote counters
    votes,      \* main.py: the votes table, rows in insertion order
    requests    \* main.py: the create_vote requests and how far each has run

vars == <<supabase, store, audit, resp, input, output, proposals, votes, requests>>
voteVars == <<proposals, votes, requests>>
apiVars == <<supabase, store, audit, resp, voteVars>>
fnVars == <<input, output, voteVars>>

(***************************************************************************)
(* Bounds of the model.                                                    *)
(***************************************************************************)
Grid == 10
MaxBatch == 3
MaxRows == 3
TrendGrid == 20

\* round(x, 4): the number of steps per unit of a rounded value
Scale4 == 10000

None == "None"
Missing == "Missing"

(***************************************************************************)
(* Exact arithmetic.                                                       *)
(***************************************************************************)
Rat(n, d) == [n |-> n, d |-> d]
Zero == Rat(0, 1)
RatGE(x, y) == x.n * y.d >= y.n * x.d
RatLE(x, y) == RatGE(y, x)
RatGT(x, y) == ~RatLE(x, y)
RatLT(x, y) == ~RatGE(x, y)
RatEq(x, y) == x.n * y.d = y.n * x.d
RatIsZero(x) == x.n = 0
Abs(i) == IF i < 0 THEN -i ELSE i
RatAbs(x) == Rat(Abs(x.n), x.d)

\* floor(n / d) for d > 0, also for negative n
FloorDiv(n, d) == IF n >= 0 THEN n \div d ELSE -((-n + d - 1) \div d)

\* Python's round(n/d, 4), as a count of 1/Scale4: to the nearest step,
\* a tie to the even step.
Round4(n, d) ==
    LET m == IF d % Scale4 = 0 THEN n ELSE n * Scale4
        e == IF d % Scale4 = 0 THEN d \div Scale4 ELSE d
        q == FloorDiv(m, e)
        r == m - q * e
    IN  IF 2 * r < e THEN q
        ELSE IF 2 * r > e THEN q + 1
        ELSE IF q % 2 = 0 THEN q ELSE q + 1

RECURSIVE SumSeq(_)
SumSeq(s) == IF s = <<>> THEN 0 ELSE Head(s) + SumSeq(Tail(s))

Count(s, x) == Cardinality({i \in DOMAIN s : s[i] = x})
MaxOf(S) == CHOOSE m \in S : \A x \in S : x <= m

(***************************************************************************)
(* A text, as the code sees it: its length, its length after strip(), its  *)
(* length after the forum analyzer's _clean_text, and what the two         *)
(* sentiment models return for it.                                         *)
(***************************************************************************)
Text(len, trimmed, compound, polarity) ==
    [none |-> FALSE, len |-> len, trimmed |-> trimmed, cleaned |-> trimmed,
     compound |-> compound, polarity |-> polarity,
     pos |-> 0, neu |-> Grid, neg |-> 0, subjectivity |-> 0,
     vader_raises |-> FALSE, blob_raises |-> FALSE]

\* a text on which the model named (vader, textblob) raises
Failing(text, model) ==
    [text EXCEPT !.vader_raises = (model = "vader"), !.blob_raises = (model = "textblob")]

\* an exception leaving the function
Raised(exception) == [raised |-> exception]
IsRaised(r) == "raised" \in DOMAIN r

\* the exception of the first call that raised, calls made in order
FirstRaised(results) ==
    results[CHOOSE i \in DOMAIN results :
                /\ IsRaised(results[i])
                /\ \A j \in 1..(i - 1) : ~IsRaised(results[j])]
AnyRaised(results) == \E i \in DOMAIN results : IsRaised(results[i])

\* the Python value None where a text is expected
NoneText == [Text(0, 0, 0, 0) EXCEPT !.none = TRUE]

\* SentimentIntensityAnalyzer.polarity_scores(text)
polarity_scores(text) ==
    IF text.vader_raises THEN Raised("Exception")
    ELSE [compound |-> text.compound, pos |-> text.pos, neu |-> text.neu, neg |-> text.neg]

\* TextBlob(text).sentiment
blob_sentiment(text) ==
    IF text.blob_raises THEN Raised("Exception")
    ELSE [polarity |-> text.polarity, subjectivity |-> text.subjectivity]

IsEmpty(text) == text.none \/ text.len = 0

\* "not text or not text.strip()"
IsBlank(text) == text.none \/ text.len = 0 \/ text.trimmed = 0

(***************************************************************************)
(* lib/sentiment_engine.py: CombinedSentimentEngine.analyze_text           *)
(***************************************************************************)
EngineLabelStrict(combined_score) ==
    IF RatGT(combined_score, Rat(2, 10)) THEN "positive"
    ELSE IF RatLT(combined_score, Rat(-2, 10)) THEN "negative"
    ELSE "neutral"

EngineLabel(combined_score) ==
    IF RatGE(combined_score, Rat(2, 10)) THEN "positive"
    ELSE IF RatLE(combined_score, Rat(-2, 10)) THEN "negative"
    ELSE "neutral"

analyze_text(text) ==
    IF IsBlank(text)
    THEN [vader_compound |-> 0, vader_pos |-> 0, vader_neu |-> Grid, vader_neg |-> 0,
          textblob_polarity |-> 0, textblob_subjectivity |-> 0,
          combined_score |-> Rat(0, 2 * Grid), sentiment |-> "neutral",
          confidence |-> Rat(0, 2 * Grid)]
    ELSE LET vader_scores == polarity_scores(text)
             blob == blob_sentiment(text)
             combined_score == Rat(vader_scores.compound + blob.polarity, 2 * Grid)
         IN  IF IsRaised(vader_scores) THEN vader_scores
             ELSE IF IsRaised(blob) THEN blob
             ELSE [vader_compound |-> vader_scores.compound,
                   vader_pos |-> vader_scores.pos,
                   vader_neu |-> vader_scores.neu,
                   vader_neg |-> vader_scores.neg,
                   textblob_polarity |-> blob.polarity,
                   textblob_subjectivity |-> blob.subjectivity,
                   combined_score |-> combined_score,
                   sentiment |-> EngineLabel(combined_score),
                   confidence |-> RatAbs(combined_score)]

(***************************************************************************)
(* Sequences of fractions that share one denominator (the scores of one    *)
(* analyzer): numpy.mean, and numpy.std by its square.                     *)
(***************************************************************************)
Numerators(xs) == [i \in DOMAIN xs |-> xs[i].n]
Squares(ns) == [i \in DOMAIN ns |-> ns[i] * ns[i]]
RatMean(xs) == Rat(SumSeq(Numerators(xs)), xs[1].d * Len(xs))
RatVariance(xs) ==
    LET ns == Numerators(xs)
        k == Len(xs)
    IN  Rat(k * SumSeq(Squares(ns)) - SumSeq(ns) * SumSeq(ns), k * k * xs[1].d * xs[1].d)

\* the members of a set of integers, ascending
RECURSIVE Ascending(_)
Ascending(S) ==
    IF S = {} THEN <<>>
    ELSE LET m == CHOOSE x \in S : \A y \in S : x <= y
         IN  <<m>> \o Ascending(S \ {m})

\* the values of s, each once, in the order of first appearance (the key
\* order of a dict filled while iterating s)
FirstSeen(s) ==
    LET idx == Ascending({i \in DOMAIN s : \A j \in 1..(i - 1) : s[j] # s[i]})
    IN  [k \in DOMAIN idx |-> s[idx[k]]]

\* sorted(s, key=..., reverse=True), keys[i] the key of s[i]: descending,
\* equal keys in their original order
SortDescBy(s, keys) ==
    LET pos(i) == 1 + Cardinality({j \in DOMAIN s :
                        \/ RatGT(keys[j], keys[i])
                        \/ (j < i /\ RatEq(keys[j], keys[i]))})
    IN  [q \in DOMAIN s |-> s[CHOOSE i \in DOMAIN s : pos(i) = q]]

\* s[:k]
Take(s, k) == SubSeq(s, 1, IF Len(s) < k THEN Len(s) ELSE k)

\* d.get(key) or "unknown"
OrUnknown(author) == IF author \in {Missing, None, ""} THEN "unknown" ELSE author

(***************************************************************************)
(* lib/sentiment_engine.py: CombinedSentimentEngine.aggregate_scores       *)
(***************************************************************************)
\* The sign of the rounding error of np.mean, which adds the doubles one by
\* one and divides by their number: 0.7 + 0.7 + 0.7 is 2.0999999999999996 and
\* the mean 0.6999999999999998.  One double or two equal ones are averaged
\* exactly; the error is far below the distance of two scores on the grid.
Roundings == {-1, 0, 1}
MeanRounding(xs, rounding) ==
    IF Len(xs) >= 3 /\ ~RatIsZero(RatMean(xs)) THEN rounding ELSE 0

\* x > float(np.mean(xs))
AboveMean(x, xs, rounding) ==
    \/ RatGT(x, RatMean(xs))
    \/ RatEq(x, RatMean(xs)) /\ MeanRounding(xs, rounding) < 0

aggregate_scores(scores, rounding) ==
    IF scores = <<>>
    THEN [avg_sentiment |-> Zero, std_sentiment_sq |-> Zero,
          positive_ratio |-> Zero, negative_ratio |-> Zero, neutral_ratio |-> Zero,
          total_messages |-> 0, sentiment_trend |-> "neutral"]
    ELSE LET sentiments == [i \in DOMAIN scores |-> scores[i].sentiment]
             combined_scores == [i \in DOMAIN scores |-> scores[i].combined_score]
             positive_count == Count(sentiments, "positive")
             negative_count == Count(sentiments, "negative")
             neutral_count == Count(sentiments, "neutral")
             total == Len(sentiments)
             avg == RatMean(combined_scores)
             last_score == combined_scores[Len(combined_scores)]
         IN  [avg_sentiment |-> avg,
              std_sentiment_sq |-> RatVariance(combined_scores),
              positive_ratio |-> Rat(positive_count, total),
              negative_ratio |-> Rat(negative_count, total),
              neutral_ratio |-> Rat(neutral_count, total),
              total_messages |-> total,
              sentiment_trend |->
                  IF AboveMean(last_score, combined_scores, rounding)
                  THEN "improving" ELSE "declining"]

(***************************************************************************)
(* A message of a batch.  author is a name, "", None or Missing (the key   *)
(* is absent); content is the text under the key the analyzer reads.       *)
(***************************************************************************)
Message(content, author, likes, retweets, timestamp) ==
    [id |-> timestamp, content |-> content, author |-> author,
     likes |-> likes, retweets |-> retweets, timestamp |-> timestamp]

(***************************************************************************)
(* data_collection/forum_sentiment_analyzer.py                             *)
(***************************************************************************)
\* df["author"].nunique(): the distinct authors that are not null, 0 when
\* no message has the key
Forum_unique_authors(messages) ==
    Cardinality({messages[i].author : i \in DOMAIN messages} \ {Missing, None})

Forum_authors_as_seen(messages, scores) ==
    LET authors == [i \in DOMAIN messages |-> OrUnknown(messages[i].author)]
        keys == FirstSeen(authors)
        vals(a) == LET idx == Ascending({i \in DOMAIN authors : authors[i] = a})
                   IN  [k \in DOMAIN idx |-> scores[idx[k]].combined_score]
        entries == [k \in DOMAIN keys |->
                        [author |-> keys[k],
                         avg_sentiment |-> RatMean(vals(keys[k])),
                         message_count |-> Len(vals(keys[k]))]]
    IN  Take(entries, 3)

Forum_top_positive_authors(messages, scores) ==
    LET authors == [i \in DOMAIN messages |-> OrUnknown(messages[i].author)]
        keys == FirstSeen(authors)
        vals(a) == LET idx == Ascending({i \in DOMAIN authors : authors[i] = a})
                   IN  [k \in DOMAIN idx |-> scores[idx[k]].combined_score]
        entries == [k \in DOMAIN keys |->
                        [author |-> keys[k],
                         avg_sentiment |-> RatMean(vals(keys[k])),
                         message_count |-> Len(vals(keys[k]))]]
        keyed == [k \in DOMAIN entries |-> entries[k].avg_sentiment]
    IN  Take(SortDescBy(entries, keyed), 3)

Forum_aggregate_messages(messages, rounding) ==
    IF messages = <<>>
    THEN aggregate_scores(<<>>, rounding) @@
         [unique_authors |-> 0,
          avg_posts_per_author |-> Zero,
          top_positive_authors |-> <<>>]
    ELSE LET scores == [i \in DOMAIN messages |-> analyze_text(messages[i].content)]
             unique_authors == Forum_unique_authors(messages)
         IN  IF AnyRaised(scores) THEN FirstRaised(scores)
             ELSE aggregate_scores(scores, rounding) @@
                  [unique_authors |-> unique_authors,
                   avg_posts_per_author |->
                       IF unique_authors # 0 THEN Rat(Len(messages), unique_authors) ELSE Zero,
                   top_positive_authors |-> Forum_top_positive_authors(messages, scores)]

(***************************************************************************)
(* data_collection/twitter_sentiment_analyzer.py                           *)
(***************************************************************************)
accounts_by_sentiment(tweets, scores) ==
    LET authors == [i \in DOMAIN tweets |-> OrUnknown(tweets[i].author)]
        keys == FirstSeen(authors)
        mine(a) == Ascending({i \in DOMAIN authors : authors[i] = a})
        sentiment_scores(a) == [k \in DOMAIN mine(a) |-> scores[mine(a)[k]].combined_score]
        engagement(a) == [k \in DOMAIN mine(a) |->
                            tweets[mine(a)[k]].likes + tweets[mine(a)[k]].retweets]
        entry(a) ==
            LET avg_s == RatMean(sentiment_scores(a))
                total_e == SumSeq(engagement(a))
            IN  [author |-> a,
                 avg_sentiment |-> avg_s,
                 total_engagement |-> total_e,
                 tweet_count |-> Len(mine(a)),
                 influence_score |-> Rat(avg_s.n * total_e, avg_s.d * 100)]
        influential == [k \in DOMAIN keys |-> entry(keys[k])]
        keyed == [k \in DOMAIN influential |-> influential[k].avg_sentiment]
    IN  Take(SortDescBy(influential, keyed), 5)

_get_influential_accounts(tweets, scores) ==
    LET authors == [i \in DOMAIN tweets |-> OrUnknown(tweets[i].author)]
        keys == FirstSeen(authors)
        mine(a) == Ascending({i \in DOMAIN authors : authors[i] = a})
        sentiment_scores(a) == [k \in DOMAIN mine(a) |-> scores[mine(a)[k]].combined_score]
        engagement(a) == [k \in DOMAIN mine(a) |->
                            tweets[mine(a)[k]].likes + tweets[mine(a)[k]].retweets]
        entry(a) ==
            LET avg_s == RatMean(sentiment_scores(a))
                total_e == SumSeq(engagement(a))
            IN  [author |-> a,
                 avg_sentiment |-> avg_s,
                 total_engagement |-> total_e,
                 tweet_count |-> Len(mine(a)),
                 influence_score |-> Rat(avg_s.n * total_e, avg_s.d * 100)]
        influential == [k \in DOMAIN keys |-> entry(keys[k])]
        keyed == [k \in DOMAIN influential |-> influential[k].influence_score]
    IN  Take(SortDescBy(influential, keyed), 5)

max_engagement_unguarded(engagements) == MaxOf({engagements[i] : i \in DOMAIN engagements})

\* "max(engagements) or 1"
max_engagement(engagements) ==
    LET top == MaxOf({engagements[i] : i \in DOMAIN engagements})
    IN  IF top = 0 THEN 1 ELSE top

Twitter_aggregated_peak(tweets) ==
         LET scores == [i \in DOMAIN tweets |-> analyze_text(tweets[i].content)]
             engagements == [i \in DOMAIN tweets |-> tweets[i].likes + tweets[i].retweets]
             weighted_scores ==
                 [i \in DOMAIN scores |->
                     Rat(scores[i].combined_score.n * engagements[i],
                         scores[i].combined_score.d * max_engagement(engagements))]
             positive_count == Cardinality({i \in DOMAIN scores : scores[i].sentiment = "positive"})
             negative_count == Cardinality({i \in DOMAIN scores : scores[i].sentiment = "negative"})
             neutral_count == Cardinality({i \in DOMAIN scores : scores[i].sentiment = "neutral"})
             total == Len(scores)
             total_engagement == MaxOf({engagements[i] : i \in DOMAIN engagements})
         IN  IF AnyRaised(scores) THEN FirstRaised(scores)
             ELSE IF max_engagement(engagements) = 0 THEN Raised("ZeroDivisionError") ELSE
             [avg_sentiment |-> RatMean(weighted_scores),
              std_sentiment_sq |-> RatVariance(weighted_scores),
              positive_ratio |-> Rat(positive_count, total),
              negative_ratio |-> Rat(negative_count, total),
              neutral_ratio |-> Rat(neutral_count, total),
              total_tweets |-> total,
              total_engagement |-> total_engagement,
              avg_engagement_per_tweet |-> Rat(total_engagement, total),
              influential_accounts |-> _get_influential_accounts(tweets, scores)]

\* aggregate_messages past its "if not tweets" guard; "e / max_engagement"
\* raises when the divisor is 0
Twitter_aggregated(tweets) ==
         LET scores == [i \in DOMAIN tweets |-> analyze_text(tweets[i].content)]
             engagements == [i \in DOMAIN tweets |-> tweets[i].likes + tweets[i].retweets]
             weighted_scores ==
                 [i \in DOMAIN scores |->
                     Rat(scores[i].combined_score.n * engagements[i],
                         scores[i].combined_score.d * max_engagement(engagements))]
             positive_count == Cardinality({i \in DOMAIN scores : scores[i].sentiment = "positive"})
             negative_count == Cardinality({i \in DOMAIN scores : scores[i].sentiment = "negative"})
             neutral_count == Cardinality({i \in DOMAIN scores : scores[i].sentiment = "neutral"})
             total == Len(scores)
             total_engagement == SumSeq(engagements)
         IN  IF AnyRaised(scores) THEN FirstRaised(scores)
             ELSE IF max_engagement(engagements) = 0 THEN Raised("ZeroDivisionError") ELSE
             [avg_sentiment |-> RatMean(weighted_scores),
              std_sentiment_sq |-> RatVariance(weighted_scores),
              positive_ratio |-> Rat(positive_count, total),
              negative_ratio |-> Rat(negative_count, total),
              neutral_ratio |-> Rat(neutral_count, total),
              total_tweets |-> total,
              total_engagement |-> total_engagement,
              avg_engagement_per_tweet |-> Rat(total_engagement, total),
              influential_accounts |-> _get_influential_accounts(tweets, scores)]

\* without the guard, max() of no engagements raises
Twitter_aggregate_unguarded(tweets) ==
    IF tweets = <<>> THEN Raised("ValueError") ELSE Twitter_aggregated(tweets)

Twitter_aggregate_messages(tweets) ==
    IF tweets = <<>>
    THEN [avg_sentiment |-> Zero, std_sentiment_sq |-> Zero,
          positive_ratio |-> Zero, negative_ratio |-> Zero, neutral_ratio |-> Zero,
          total_tweets |-> 0, total_engagement |-> 0,
          avg_engagement_per_tweet |-> Zero, influential_accounts |-> <<>>]
    ELSE Twitter_aggregated(tweets)

(***************************************************************************)
(* backend/sentiment_service/discord_analyzer.py: DiscordSentimentAnalyzer *)
(***************************************************************************)
\* "except Exception: return 0.0"
_analyze_with_textblob(text) ==
    IF IsRaised(blob_sentiment(text)) THEN 0 ELSE blob_sentiment(text).polarity

\* "except Exception: return {compound: 0.0, pos: 0.0, neg: 0.0, neu: 0.0}"
_analyze_with_vader(text) ==
    IF IsRaised(polarity_scores(text)) THEN [compound |-> 0, pos |-> 0, neg |-> 0, neu |-> 0]
    ELSE polarity_scores(text)

combine_unweighted(textblob_score, vader_compound) ==
    Rat(10 * textblob_score + 10 * vader_compound, 10 * Grid)

\* textblob_score * 0.3 + vader_compound * 0.7
_combine_sentiment_scores(textblob_score, vader_compound) ==
    Rat(3 * textblob_score + 7 * vader_compound, 10 * Grid)

analyze_message(message) ==
    LET textblob_score == _analyze_with_textblob(message)
        vader_scores == _analyze_with_vader(message)
        combined_score == _combine_sentiment_scores(textblob_score, vader_scores.compound)
    IN  [sentiment_score |-> combined_score,
         classification |->
             IF RatGT(combined_score, Rat(1, 10)) THEN "positive"
             ELSE IF RatLT(combined_score, Rat(-1, 10)) THEN "negative"
             ELSE "neutral",
         textblob_score |-> textblob_score,
         vader_compound |-> vader_scores.compound,
         vader_positive |-> vader_scores.pos,
         vader_negative |-> vader_scores.neg,
         vader_neutral |-> vader_scores.neu]

\* msg.get("author", "unknown")
GetOrUnknown(author) == IF author = Missing THEN "unknown" ELSE author

DiscordKeptAll(messages) == messages

\* "if len(content.strip()) < 3: continue"
DiscordKept(messages) == SelectSeq(messages, LAMBDA m : ~(m.content.trimmed < 3))

analyze_messages(messages) ==
    IF messages = <<>>
    THEN [sentiment_score |-> 0, message_count |-> 0,
          positive_count |-> 0, negative_count |-> 0, neutral_count |-> 0,
          messages |-> <<>>]
    ELSE LET kept == DiscordKept(messages)
             analysis == [i \in DOMAIN kept |-> analyze_message(kept[i].content)]
             positive_count == Cardinality({i \in DOMAIN kept : analysis[i].classification = "positive"})
             negative_count == Cardinality({i \in DOMAIN kept : analysis[i].classification = "negative"})
             neutral_count == Len(kept) - positive_count - negative_count
             total_score == SumSeq([i \in DOMAIN kept |-> analysis[i].sentiment_score.n])
             analyzed_messages ==
                 [i \in DOMAIN kept |->
                     [content |-> kept[i].content,
                      author |-> GetOrUnknown(kept[i].author),
                      timestamp |-> kept[i].timestamp,
                      sentiment_score |-> analysis[i].sentiment_score,
                      classification |-> analysis[i].classification]]
             message_count == Len(analyzed_messages)
         IN  [sentiment_score |->
                  IF message_count > 0 THEN Round4(total_score, 10 * Grid * message_count) ELSE 0,
              message_count |-> message_count,
              positive_count |-> positive_count,
              negative_count |-> negative_count,
              neutral_count |-> neutral_count,
              positive_ratio |-> IF message_count > 0 THEN Round4(positive_count, message_count) ELSE 0,
              negative_ratio |-> IF message_count > 0 THEN Round4(negative_count, message_count) ELSE 0,
              neutral_ratio |-> IF message_count > 0 THEN Round4(neutral_count, message_count) ELSE 0,
              messages |-> analyzed_messages]

(***************************************************************************)
(* data_collection/discord_analyzer.py: DiscordAnalyzer                    *)
(***************************************************************************)
analyze_sentiment(text) ==
    LET vader_scores == polarity_scores(text)
        blob == blob_sentiment(text)
        combined_score == Rat(vader_scores.compound + blob.polarity, 2 * Grid)
    IN  IF IsRaised(vader_scores) THEN vader_scores
        ELSE IF IsRaised(blob) THEN blob ELSE
        [vader_compound |-> vader_scores.compound,
         vader_pos |-> vader_scores.pos,
         vader_neu |-> vader_scores.neu,
         vader_neg |-> vader_scores.neg,
         textblob_polarity |-> blob.polarity,
         textblob_subjectivity |-> blob.subjectivity,
         combined_score |-> combined_score,
         sentiment |->
             IF RatGE(combined_score, Rat(2, 10)) THEN "positive"
             ELSE IF RatLE(combined_score, Rat(-2, 10)) THEN "negative"
             ELSE "neutral"]

_classify_overall(score) ==
    IF RatGE(score, Rat(3, 10)) THEN "very_positive"
    ELSE IF RatGE(score, Rat(1, 10)) THEN "positive"
    ELSE IF RatLE(score, Rat(-3, 10)) THEN "very_negative"
    ELSE IF RatLE(score, Rat(-1, 10)) THEN "negative"
    ELSE "neutral"

_calculate_engagement(messages) ==
    LET count == Len(messages)
    IN  IF count >= 100 THEN "very_high"
        ELSE IF count >= 50 THEN "high"
        ELSE IF count >= 20 THEN "medium"
        ELSE IF count >= 5 THEN "low"
        ELSE "very_low"

_empty_analysis ==
    [total_messages |-> 0, positive_count |-> 0, negative_count |-> 0, neutral_count |-> 0,
     positive_ratio |-> Zero, negative_ratio |-> Zero, avg_sentiment |-> Zero,
     overall_sentiment |-> "neutral", engagement_level |-> "none"]

\* "if not text or len(text) < 5: continue"
ThreadKept(messages) ==
    SelectSeq(messages, LAMBDA m : ~(m.content.none \/ m.content.len = 0 \/ m.content.len < 5))

Discord_analyze_thread(messages) ==
    IF messages = <<>> THEN _empty_analysis
    ELSE LET kept == ThreadKept(messages)
             sentiments == [i \in DOMAIN kept |-> analyze_sentiment(kept[i].content)]
             positive_count == Cardinality({i \in DOMAIN kept : sentiments[i].sentiment = "positive"})
             negative_count == Cardinality({i \in DOMAIN kept : sentiments[i].sentiment = "negative"})
             neutral_count == Len(kept) - positive_count - negative_count
             total_messages == Len(sentiments)
             avg_combined == RatMean([i \in DOMAIN kept |-> sentiments[i].combined_score])
         IN  IF AnyRaised(sentiments) THEN FirstRaised(sentiments)
             ELSE IF sentiments = <<>> THEN _empty_analysis
             ELSE [total_messages |-> total_messages,
                   positive_count |-> positive_count,
                   negative_count |-> negative_count,
                   neutral_count |-> neutral_count,
                   positive_ratio |-> Rat(positive_count, total_messages),
                   negative_ratio |-> Rat(negative_count, total_messages),
                   avg_sentiment |-> avg_combined,
                   avg_vader_score |->
                       Rat(SumSeq([i \in DOMAIN kept |-> sentiments[i].vader_compound]),
                           Grid * total_messages),
                   avg_textblob_polarity |->
                       Rat(SumSeq([i \in DOMAIN kept |-> sentiments[i].textblob_polarity]),
                           Grid * total_messages),
                   overall_sentiment |-> _classify_overall(avg_combined),
                   engagement_level |-> _calculate_engagement(messages)]

(***************************************************************************)
(* backend/sentiment_service/forum_analyzer.py: ForumSentimentAnalyzer     *)
(***************************************************************************)
\* the weighted score of the two model scores, its label and confidence
ForumClassified(textblob_score, vader_compound) ==
    LET combined_score == Rat(4 * textblob_score + 6 * vader_compound, 10 * Grid)
        doubled == Rat(2 * Abs(combined_score.n), combined_score.d)
    IN  [sentiment_score |-> combined_score,
         classification |->
             IF RatGT(combined_score, Rat(15, 100)) THEN "positive"
             ELSE IF RatLT(combined_score, Rat(-15, 100)) THEN "negative"
             ELSE "neutral",
         confidence |-> IF RatLE(doubled, Rat(1, 1)) THEN doubled
                        ELSE Rat(combined_score.d, combined_score.d),
         textblob_score |-> textblob_score,
         vader_compound |-> vader_compound]

\* _clean_text(text): the models then run on the cleaned text; a bare
\* "except:" around each model call sets its score to 0.0
_analyze_sentiment(text) ==
    IF text.cleaned < 3
    THEN [sentiment_score |-> Rat(0, 10 * Grid), classification |-> "neutral",
          confidence |-> Rat(0, 10 * Grid)]
    ELSE ForumClassified(
             IF IsRaised(blob_sentiment(text)) THEN 0 ELSE blob_sentiment(text).polarity,
             IF IsRaised(polarity_scores(text)) THEN 0 ELSE polarity_scores(text).compound)

analyze_post(post) ==
    LET analysis == _analyze_sentiment(post.content)
    IN  [post_id |-> post.id,
         author |-> IF post.author = Missing THEN None ELSE post.author,
         created_at |-> post.timestamp,
         content_preview |-> post.content,
         sentiment_score |-> analysis.sentiment_score,
         classification |-> analysis.classification,
         confidence |-> analysis.confidence]

\* analyze_thread past its "if not posts" guard, analyzed_posts the result
\* of analyze_post on each post
ThreadAggregate(posts, analyzed_posts) ==
    LET positive_count == Cardinality({i \in DOMAIN posts : analyzed_posts[i].classification = "positive"})
        negative_count == Cardinality({i \in DOMAIN posts : analyzed_posts[i].classification = "negative"})
        neutral_count == Len(posts) - positive_count - negative_count
        total_score == SumSeq([i \in DOMAIN posts |-> analyzed_posts[i].sentiment_score.n])
        total_confidence == SumSeq([i \in DOMAIN posts |-> analyzed_posts[i].confidence.n])
        message_count == Len(analyzed_posts)
        unique_authors ==
            Cardinality({posts[i].author : i \in DOMAIN posts} \ {Missing, None, ""})
    IN  [sentiment_score |-> Round4(total_score, 10 * Grid * message_count),
         average_confidence |-> Round4(total_confidence, 10 * Grid * message_count),
         message_count |-> message_count,
         unique_authors |-> unique_authors,
         positive_count |-> positive_count,
         negative_count |-> negative_count,
         neutral_count |-> neutral_count,
         positive_ratio |-> Round4(positive_count, message_count),
         negative_ratio |-> Round4(negative_count, message_count),
         neutral_ratio |-> Round4(neutral_count, message_count),
         analyzed_posts |-> analyzed_posts]

Forum_analyze_thread(posts) ==
    IF posts = <<>>
    THEN [sentiment_score |-> 0, message_count |-> 0,
          positive_count |-> 0, negative_count |-> 0, neutral_count |-> 0]
    ELSE ThreadAggregate(posts, [i \in DOMAIN posts |-> analyze_post(posts[i])])

(***************************************************************************)
(* backend/api/sentiment.py: the sentiment_analysis table and its queries. *)
(* A row's sentiment_score is a count of 1/Scale4; analyzed_at is the      *)
(* position of the insert in time.  The free-form metadata column, which   *)
(* no query reads, is left out.                                            *)
(***************************************************************************)
Row(proposal_id, source, sentiment_score, message_count, positive_count, negative_count, neutral_count, analyzed_at) ==
    [proposal_id |-> proposal_id, source |-> source,
     sentiment_score |-> sentiment_score, message_count |-> message_count,
     positive_count |-> positive_count, negative_count |-> negative_count,
     neutral_count |-> neutral_count, analyzed_at |-> analyzed_at]

TrendStrict(sentiment_score) ==
    IF RatGT(sentiment_score, Rat(5, 10)) THEN "Very Positive"
    ELSE IF RatGT(sentiment_score, Rat(2, 10)) THEN "Positive"
    ELSE IF RatGT(sentiment_score, Rat(-2, 10)) THEN "Neutral"
    ELSE IF RatGT(sentiment_score, Rat(-5, 10)) THEN "Negative"
    ELSE "Very Negative"

_get_sentiment_trend(sentiment_score) ==
    IF RatGE(sentiment_score, Rat(5, 10)) THEN "Very Positive"
    ELSE IF RatGE(sentiment_score, Rat(2, 10)) THEN "Positive"
    ELSE IF RatGE(sentiment_score, Rat(-2, 10)) THEN "Neutral"
    ELSE IF RatGE(sentiment_score, Rat(-5, 10)) THEN "Negative"
    ELSE "Very Negative"

\* sum(s.get("message_count", 0) for s in data)
TotalMessages(data) == SumSeq([i \in DOMAIN data |-> data[i].message_count])

UnweightedSentiment(data) ==
    IF TotalMessages(data) > 0
    THEN Rat(SumSeq([i \in DOMAIN data |-> data[i].sentiment_score]), Scale4 * Len(data))
    ELSE Rat(0, 1)

\* sum(score * message_count) / total_messages if total_messages > 0 else 0
WeightedSentiment(data) ==
    IF TotalMessages(data) > 0
    THEN Rat(SumSeq([i \in DOMAIN data |-> data[i].sentiment_score * data[i].message_count]),
             Scale4 * TotalMessages(data))
    ELSE Rat(0, 1)

\* the dict filled by "for s in data: by_source[source] = {...}": a later
\* row of a source replaces the earlier one
BySource(data) ==
    [src \in {data[i].source : i \in DOMAIN data} |->
        LET s == data[MaxOf({i \in DOMAIN data : data[i].source = src})]
        IN  [sentiment_score |-> s.sentiment_score,
             message_count |-> s.message_count,
             positive_count |-> s.positive_count,
             negative_count |-> s.negative_count,
             neutral_count |-> s.neutral_count,
             analyzed_at |-> s.analyzed_at]]

\* get_aggregated_sentiment past the 404 check, on the rows as fetched
AggregatedResult(proposal_id, data) ==
    LET total_messages == TotalMessages(data)
        total_positive == SumSeq([i \in DOMAIN data |-> data[i].positive_count])
        total_negative == SumSeq([i \in DOMAIN data |-> data[i].negative_count])
        total_neutral == SumSeq([i \in DOMAIN data |-> data[i].neutral_count])
        weighted_sentiment == WeightedSentiment(data)
        by_source == BySource(data)
    IN  [proposal_id |-> proposal_id,
         aggregated_sentiment_score |-> Round4(weighted_sentiment.n, weighted_sentiment.d),
         sentiment_trend |-> _get_sentiment_trend(weighted_sentiment),
         total_messages_analyzed |-> total_messages,
         positive_ratio |-> IF total_messages > 0 THEN Round4(total_positive, total_messages) ELSE 0,
         negative_ratio |-> IF total_messages > 0 THEN Round4(total_negative, total_messages) ELSE 0,
         neutral_ratio |-> IF total_messages > 0 THEN Round4(total_neutral, total_messages) ELSE 0,
         sources_count |-> Cardinality(DOMAIN by_source),
         by_source |-> by_source,
         last_analyzed |-> MaxOf({data[i].analyzed_at : i \in DOMAIN data})]

\* get_sentiment_analysis past the 404 check, on the rows as fetched
SentimentAnalysisResult(proposal_id, data) ==
    IF Len(data) > 1
    THEN LET weighted_sentiment == WeightedSentiment(data)
         IN  [proposal_id |-> proposal_id,
              aggregated_sentiment |-> Round4(weighted_sentiment.n, weighted_sentiment.d),
              total_messages |-> TotalMessages(data),
              sources |-> Len(data),
              by_source |-> data,
              sentiment_trend |-> _get_sentiment_trend(weighted_sentiment)]
    ELSE LET sentiment_data == data[1]
         IN  [proposal_id |-> proposal_id,
              source |-> sentiment_data.source,
              sentiment_score |-> sentiment_data.sentiment_score,
              message_count |-> sentiment_data.message_count,
              positive_count |-> sentiment_data.positive_count,
              negative_count |-> sentiment_data.negative_count,
              neutral_count |-> sentiment_data.neutral_count,
              analyzed_at |-> sentiment_data.analyzed_at,
              sentiment_trend |-> _get_sentiment_trend(Rat(sentiment_data.sentiment_score, Scale4))]

MatchingAnyProposal(proposal_id, source) ==
    SelectSeq(store, LAMBDA s : source = None \/ s.source = source)

\* .eq("proposal_id", proposal_id), and .eq("source", source) when given
Matching(proposal_id, source) ==
    SelectSeq(store, LAMBDA s : s.proposal_id = proposal_id /\ (source = None \/ s.source = source))

Reverse(s) == [i \in DOMAIN s |-> s[Len(s) + 1 - i]]
Orders(k) == {f \in [1..k -> 1..k] : \A i, j \in 1..k : f[i] = f[j] => i = j}
Permuted(s, f) == [i \in DOMAIN s |-> s[f[i]]]

\* datetime.utcnow(): later than every row stored so far
Now == Len(store) + 1

Idle == [op |-> "idle"]

\* HTTPException(status_code, ...)
HttpError(op, proposal_id, status_code) ==
    [op |-> op, proposal_id |-> proposal_id, status |-> status_code]

\* wrap_response_with_disclaimer(result, "sentiment")
HttpOk(op, proposal_id, data) ==
    [op |-> op, proposal_id |-> proposal_id, status |-> 200,
     disclaimer |-> "sentiment", data |-> data]

(***************************************************************************)
(* GET /api/sentiment/{proposal_id}.  db_ok is whether the table could be  *)
(* read; rows come back newest first.                                      *)
(***************************************************************************)
get_sentiment_analysis(proposal_id, source, db_ok) ==
    LET op == "get_sentiment_analysis"
        data == Reverse(Matching(proposal_id, source))
        answer == IF ~supabase \/ ~db_ok THEN HttpError(op, proposal_id, 500)
                  ELSE IF data = <<>> THEN HttpError(op, proposal_id, 404)
                  ELSE HttpOk(op, proposal_id, SentimentAnalysisResult(proposal_id, data))
    IN  /\ resp' = answer @@ [source_filter |-> source]
        /\ audit' = IF supabase /\ db_ok /\ data # <<>>
                    THEN audit \cup {"sentiment_viewed"} ELSE audit
        /\ UNCHANGED <<supabase, store, fnVars>>

(***************************************************************************)
(* GET /api/sentiment/aggregate/{proposal_id}.  The query states no order: *)
(* the rows come back in any order.                                        *)
(***************************************************************************)
get_aggregated_sentiment(proposal_id, order, db_ok) ==
    LET op == "get_aggregated_sentiment"
        data == Permuted(Matching(proposal_id, None), order)
    IN  /\ resp' =
               IF ~supabase \/ ~db_ok THEN HttpError(op, proposal_id, 500)
               ELSE IF data = <<>> THEN HttpError(op, proposal_id, 404)
               ELSE HttpOk(op, proposal_id, AggregatedResult(proposal_id, data))
        /\ UNCHANGED <<supabase, store, audit, fnVars>>

(***************************************************************************)
(* POST /api/sentiment/.  The request model (SentimentCreate) rejects a    *)
(* score outside [-1,1] and a negative count before the handler runs.      *)
(***************************************************************************)
SentimentCreate(proposal_id, source, sentiment_score, message_count, positive_count, negative_count, neutral_count) ==
    Row(proposal_id, source, sentiment_score, message_count, positive_count,
        negative_count, neutral_count, None)

ValidRequest(sentiment) ==
    /\ sentiment.sentiment_score >= -Scale4 /\ sentiment.sentiment_score <= Scale4
    /\ sentiment.message_count >= 0
    /\ sentiment.positive_count >= 0
    /\ sentiment.negative_count >= 0
    /\ sentiment.neutral_count >= 0

create_uncounted(sentiment, db_ok) ==
    LET op == "create_sentiment_analysis"
        pid == sentiment.proposal_id
        sentiment_data == [sentiment EXCEPT !.analyzed_at = Now]
        counted == TRUE
        inserts == supabase /\ ValidRequest(sentiment) /\ counted /\ db_ok
    IN  /\ resp' =
               IF ~ValidRequest(sentiment) THEN HttpError(op, pid, 422)
               ELSE IF ~supabase THEN HttpError(op, pid, 500)
               ELSE IF ~counted THEN HttpError(op, pid, 400)
               ELSE IF ~db_ok THEN HttpError(op, pid, 500)
               ELSE HttpOk(op, pid, sentiment_data)
        /\ store' = IF inserts THEN Append(store, sentiment_data) ELSE store
        /\ audit' = IF inserts THEN audit \cup {"sentiment_analyzed"} ELSE audit
        /\ UNCHANGED <<supabase, fnVars>>

create_sentiment_analysis(sentiment, db_ok) ==
    LET op == "create_sentiment_analysis"
        pid == sentiment.proposal_id
        sentiment_data == [sentiment EXCEPT !.analyzed_at = Now]
        counted == sentiment.positive_count + sentiment.negative_count
                       + sentiment.neutral_count = sentiment.message_count
        inserts == supabase /\ ValidRequest(sentiment) /\ counted /\ db_ok
    IN  /\ resp' =
               IF ~ValidRequest(sentiment) THEN HttpError(op, pid, 422)
               ELSE IF ~supabase THEN HttpError(op, pid, 500)
               ELSE IF ~counted THEN HttpError(op, pid, 400)
               ELSE IF ~db_ok THEN HttpError(op, pid, 500)
               ELSE HttpOk(op, pid, sentiment_data)
        /\ store' = IF inserts THEN Append(store, sentiment_data) ELSE store
        /\ audit' = IF inserts THEN audit \cup {"sentiment_analyzed"} ELSE audit
        /\ UNCHANGED <<supabase, fnVars>>

(***************************************************************************)
(* backend/sentiment_service/discord_analyzer.py: saving an analysis       *)
(***************************************************************************)
\* the stub standing for the Discord fetch
Discord_analyze_proposal_discussion(proposal_id, channel_id) ==
    [proposal_id |-> proposal_id, source |-> "discord", sentiment_score |-> 0,
     message_count |-> 0, positive_count |-> 0, negative_count |-> 0, neutral_count |-> 0,
     channel_id |-> channel_id, analyzed_at |-> Now,
     note |-> "Live Discord integration pending bot setup"]

\* the row save_sentiment_analysis builds from an analysis
SavedRow(proposal_id, source, sentiment_data) ==
    Row(proposal_id, source, sentiment_data.sentiment_score, sentiment_data.message_count,
        sentiment_data.positive_count, sentiment_data.negative_count,
        sentiment_data.neutral_count, Now)

SaveResult(data, db_ok) ==
    IF db_ok THEN [status |-> "success", data |-> data]
    ELSE [status |-> "error"]

\* save_sentiment_analysis on the analysis, and what analyze_and_save returns
DiscordSave(proposal_id, db_ok, sentiment_data) ==
    LET data == SavedRow(proposal_id, "discord", sentiment_data)
    IN  /\ supabase
        /\ resp' = [op |-> "discord.analyze_and_save", proposal_id |-> proposal_id,
                    sentiment_analysis |-> sentiment_data,
                    save_result |-> SaveResult(data, db_ok)]
        /\ store' = IF db_ok THEN Append(store, data) ELSE store
        /\ UNCHANGED <<supabase, audit, fnVars>>

Discord_analyze_and_save(proposal_id, messages, channel_id, db_ok) ==
    DiscordSave(proposal_id, db_ok,
                IF messages # <<>>
                THEN analyze_messages(messages)
                         @@ [proposal_id |-> proposal_id, channel_id |-> channel_id]
                ELSE Discord_analyze_proposal_discussion(proposal_id, channel_id))

(***************************************************************************)
(* backend/sentiment_service/forum_analyzer.py: fetching, analysing and    *)
(* saving.  db is what the database holds and does at the time of the      *)
(* call: the forum_posts and forum_threads tables, and which query, if     *)
(* any, raises.                                                            *)
(***************************************************************************)
ForumDb(forum_posts, forum_threads, raises) ==
    [forum_posts |-> forum_posts, forum_threads |-> forum_threads, raises |-> raises]

\* the fetch could not read the tables
FetchFailed(thread_id, db) ==
    \/ db.raises = "forum_posts"
    \/ /\ db.raises = "forum_threads"
       /\ SelectSeq(db.forum_posts, LAMBDA q : thread_id = None \/ q.thread_id = thread_id) = <<>>

fetch_forum_posts(proposal_id, thread_id, db) ==
    LET posts == SelectSeq(db.forum_posts, LAMBDA q : thread_id = None \/ q.thread_id = thread_id)
        threads == SelectSeq(db.forum_threads, LAMBDA t : t.proposal_id = proposal_id)
    IN  IF db.raises = "forum_posts" THEN <<>>
        ELSE IF posts # <<>>
        THEN [i \in DOMAIN posts |->
                 Message(posts[i].body,
                         IF posts[i].author = Missing THEN "anonymous" ELSE posts[i].author,
                         0, 0, posts[i].created_at)]
        ELSE IF db.raises = "forum_threads" THEN <<>>
        ELSE [i \in DOMAIN threads |->
                 Message(threads[i].body,
                         IF threads[i].author = Missing THEN "anonymous" ELSE threads[i].author,
                         0, 0, threads[i].created_at)]

\* the result analyze_proposal_discussion builds from the thread's analysis
ForumDiscussion(proposal_id, thread_id, analysis) ==
    [proposal_id |-> proposal_id, thread_id |-> thread_id, source |-> "forum",
     sentiment_score |-> analysis.sentiment_score,
     average_confidence |-> analysis.average_confidence,
     message_count |-> analysis.message_count,
     unique_authors |-> analysis.unique_authors,
     positive_count |-> analysis.positive_count,
     negative_count |-> analysis.negative_count,
     neutral_count |-> analysis.neutral_count,
     positive_ratio |-> analysis.positive_ratio,
     negative_ratio |-> analysis.negative_ratio,
     neutral_ratio |-> analysis.neutral_ratio,
     analyzed_at |-> Now,
     sample_posts |-> Take(analysis.analyzed_posts, 5)]

Forum_analyze_proposal_discussion(proposal_id, thread_id, posts) ==
    IF posts = <<>>
    THEN [proposal_id |-> proposal_id, source |-> "forum", sentiment_score |-> 0,
          message_count |-> 0, positive_count |-> 0, negative_count |-> 0,
          neutral_count |-> 0, analyzed_at |-> Now,
          note |-> "No forum posts found for this proposal"]
    ELSE ForumDiscussion(proposal_id, thread_id, Forum_analyze_thread(posts))

\* save_sentiment_analysis on the analysis, and what analyze_and_save returns
ForumSave(proposal_id, thread_id, db, db_ok, sentiment_data) ==
    LET data == SavedRow(proposal_id, "forum", sentiment_data)
    IN  /\ supabase
        /\ resp' = [op |-> "forum.analyze_and_save", proposal_id |-> proposal_id,
                    thread_id |-> thread_id,
                    fetch |-> IF FetchFailed(thread_id, db) THEN "failed" ELSE "fetched",
                    sentiment_analysis |-> sentiment_data,
                    save_result |-> SaveResult(data, db_ok)]
        /\ store' = IF db_ok THEN Append(store, data) ELSE store
        /\ UNCHANGED <<supabase, audit, fnVars>>

Forum_analyze_and_save(proposal_id, thread_id, db, db_ok) ==
    ForumSave(proposal_id, thread_id, db, db_ok,
              Forum_analyze_proposal_discussion(
                  proposal_id, thread_id, fetch_forum_posts(proposal_id, thread_id, db)))

(***************************************************************************)
(* backend/main.py: POST /api/votes.  api/index.py serves the app as a     *)
(* serverless function, so requests run in separate instances and meet     *)
(* only in the database: a request is one step per database call.          *)
(***************************************************************************)
MaxRequests == 3

\* ProposalCreate: a proposal starts with all four counters at 0
NewProposal == [total_votes |-> 0, votes_for |-> 0, votes_against |-> 0, votes_abstain |-> 0]

\* VoteCreate: vote_choice is any string, "for", "against" and "abstain"
\* being the ones the handler knows
VoteChoices == {"for", "against", "abstain", "yes"}
VoteCreate(proposal_id, vote_choice) == [proposal_id |-> proposal_id, vote_choice |-> vote_choice]
VoteRequests ==
    {VoteCreate("p1", vote_choice) : vote_choice \in VoteChoices} \cup {VoteCreate("p2", "for")}

NotSent == [pc |-> "idle", status |-> 0, vote |-> VoteCreate(None, None), current |-> NewProposal]

VotesIdle ==
    /\ proposals = [proposal_id \in {"p1"} |-> NewProposal]
    /\ votes = <<>>
    /\ requests = [r \in 1..MaxRequests |-> NotSent]

\* "except Exception as e: raise HTTPException(status_code=400, ...)"
VoteFailed(r) == [requests EXCEPT ![r].pc = "returned", ![r].status = 400]

\* supabase.table("votes").insert(data).execute()
create_vote_insert(r, vote, db_ok) ==
    /\ requests[r].pc = "idle"
    /\ IF db_ok
       THEN /\ votes' = Append(votes, vote)
            /\ requests' = [requests EXCEPT ![r].pc = "inserted", ![r].vote = vote]
       ELSE /\ votes' = votes
            /\ requests' = [VoteFailed(r) EXCEPT ![r].vote = vote]
    /\ UNCHANGED <<proposals, supabase, store, audit, resp, input, output>>

\* proposal = supabase.table("proposals").select("*").eq(...).execute();
\* "if proposal.data:" skips the update for an unknown proposal
create_vote_select(r, db_ok) ==
    LET proposal_id == requests[r].vote.proposal_id
    IN  /\ requests[r].pc = "inserted"
        /\ requests' =
               IF ~db_ok THEN VoteFailed(r)
               ELSE IF proposal_id \notin DOMAIN proposals
               THEN [requests EXCEPT ![r].pc = "returned", ![r].status = 200]
               ELSE [requests EXCEPT ![r].pc = "selected", ![r].current = proposals[proposal_id]]
        /\ UNCHANGED <<proposals, votes, supabase, store, audit, resp, input, output>>

\* updates = {"total_votes": current["total_votes"] + 1} and the counter of
\* the choice, written over the row's columns
VoteUpdates(row, current, vote_choice) ==
    LET total == [row EXCEPT !.total_votes = current.total_votes + 1]
    IN  IF vote_choice = "for" THEN [total EXCEPT !.votes_for = current.votes_for + 1]
        ELSE IF vote_choice = "against"
        THEN [total EXCEPT !.votes_against = current.votes_against + 1]
        ELSE IF vote_choice = "abstain"
        THEN [total EXCEPT !.votes_abstain = current.votes_abstain + 1]
        ELSE total

\* supabase.table("proposals").update(updates).eq(...).execute()
create_vote_update(r, db_ok) ==
    LET vote == requests[r].vote
    IN  /\ requests[r].pc = "selected"
        /\ IF db_ok
           THEN /\ proposals' =
                       [proposals EXCEPT ![vote.proposal_id] =
                            VoteUpdates(@, requests[r].current, vote.vote_choice)]
                /\ requests' = [requests EXCEPT ![r].pc = "returned", ![r].status = 200]
           ELSE /\ proposals' = proposals
                /\ requests' = VoteFailed(r)
        /\ UNCHANGED <<votes, supabase, store, audit, resp, input, output>>

(***************************************************************************)
(* Spec: the table under any sequence of requests and analyzer runs, at    *)
(* most MaxRows rows.                                                      *)
(***************************************************************************)
Proposals == {"p1", "p2"}

CreateRequests ==
    {SentimentCreate("p1", "twitter", 6000, 10, 6, 1, 3),
     SentimentCreate("p1", "forum", -2000, 5, 1, 3, 1),
     SentimentCreate("p2", "twitter", 5000, 2, 2, 0, 0),
     SentimentCreate("p1", "twitter", 2000, 3, 1, 1, 0),
     SentimentCreate("p1", "twitter", 15000, 1, 1, 0, 0)}

DiscordBatches ==
    {<<>>,
     <<Message(Text(8, 8, 6, 2), "alice", 0, 0, 1), Message(Text(4, 2, 6, 2), "bob", 0, 0, 2)>>}

ForumPost(thread_id, body, author, created_at) ==
    [thread_id |-> thread_id, body |-> body, author |-> author, created_at |-> created_at]
ForumThread(proposal_id, body, author, created_at) ==
    [proposal_id |-> proposal_id, body |-> body, author |-> author, created_at |-> created_at]

ForumDbs ==
    LET posts == <<ForumPost("t1", Text(8, 8, -6, -2), "alice", 1)>>
        threads == <<ForumThread("p1", Text(8, 8, -6, -2), Missing, 1)>>
    IN  {ForumDb(<<>>, <<>>, "nothing"),
         ForumDb(posts, threads, "nothing"),
         ForumDb(<<>>, threads, "nothing"),
         ForumDb(posts, threads, "forum_posts"),
         ForumDb(<<>>, threads, "forum_threads"),
         ForumDb(posts, <<>>, "forum_threads")}

Init ==
    /\ supabase \in BOOLEAN
    /\ store = <<>>
    /\ audit = {}
    /\ resp = Idle
    /\ input = <<>>
    /\ output = Idle
    /\ VotesIdle

Room == Len(store) < MaxRows

GetSentimentAnalysis ==
    \E proposal_id \in Proposals, source \in {None, "forum"}, db_ok \in BOOLEAN :
        get_sentiment_analysis(proposal_id, source, db_ok)

GetAggregatedSentiment ==
    \E proposal_id \in Proposals, db_ok \in BOOLEAN :
        \E order \in IF db_ok THEN Orders(Len(Matching(proposal_id, None)))
                                ELSE {[i \in DOMAIN Matching(proposal_id, None) |-> i]} :
            get_aggregated_sentiment(proposal_id, order, db_ok)

CreateSentimentAnalysis ==
    /\ Room
    /\ \E sentiment \in CreateRequests, db_ok \in BOOLEAN :
           create_sentiment_analysis(sentiment, db_ok)

DiscordAnalyzeAndSave ==
    /\ Room
    /\ \E messages \in DiscordBatches, db_ok \in BOOLEAN :
           Discord_analyze_and_save("p1", messages, None, db_ok)

ForumAnalyzeAndSave ==
    /\ Room
    /\ \E thread_id \in {None, "t2"}, db \in ForumDbs, db_ok \in BOOLEAN :
           Forum_analyze_and_save("p1", thread_id, db, db_ok)

Next ==
    \/ GetSentimentAnalysis
    \/ GetAggregatedSentiment
    \/ CreateSentimentAnalysis
    \/ DiscordAnalyzeAndSave
    \/ ForumAnalyzeAndSave

Spec == Init /\ [][Next]_vars

(***************************************************************************)
(* SpecScorer: the scorer applied to one text.                             *)
(***************************************************************************)
ModelOutputs == (-Grid)..Grid
TextShapes == {<<0, 0>>, <<3, 0>>, <<4, 2>>, <<8, 8>>}
ScorerTexts ==
    {NoneText} \cup {Text(s[1], s[2], c, p) : s \in TextShapes, c \in ModelOutputs, p \in ModelOutputs}


ApiIdle ==
    /\ supabase = TRUE
    /\ store = <<>>
    /\ audit = {}
    /\ resp = Idle
    /\ VotesIdle

InitScorer ==
    /\ ApiIdle
    /\ input \in ScorerTexts
    /\ output = Idle

AnalyzeText ==
    /\ output = Idle
    /\ output' = [op |-> "analyze_text", result |-> analyze_text(input)]
    /\ UNCHANGED <<input, apiVars>>

NextScorer == AnalyzeText
SpecScorer == InitScorer /\ [][NextScorer]_vars

(***************************************************************************)
(* SpecAnalyzers: each source analyzer applied to one batch of messages.   *)
(* The batch is any sequence of at most MaxBatch messages over a small     *)
(* universe: a blank text, a text too short to score, and texts the        *)
(* models rate positive, negative and neutral, each by three senders.      *)
(***************************************************************************)
BatchTexts ==
    {Text(3, 0, 0, 0), Text(4, 2, 6, 2), Text(8, 8, 6, 2), Text(8, 8, -6, -2), Text(8, 8, 1, 1)}
Senders == {<<"alice", 3, 1, 2>>, <<"bob", 0, 0, 1>>, <<Missing, 1, 0, 3>>}
BatchMessages == {Message(t, a[1], a[2], a[3], a[4]) : t \in BatchTexts, a \in Senders}
Batches == UNION {[1..k -> BatchMessages] : k \in 0..MaxBatch}

InitAnalyzers ==
    /\ ApiIdle
    /\ input \in Batches
    /\ output = Idle

Apply(op, result) ==
    /\ output = Idle
    /\ output' = [op |-> op, result |-> result]
    /\ UNCHANGED <<input, apiVars>>

ForumAggregate ==
    \E rounding \in Roundings :
        Apply("forum.aggregate_messages", Forum_aggregate_messages(input, rounding))
TwitterAggregate == Apply("twitter.aggregate_messages", Twitter_aggregate_messages(input))
DiscordAnalyzeMessages == Apply("discord.analyze_messages", analyze_messages(input))
DiscordAnalyzeThread == Apply("discord.analyze_thread", Discord_analyze_thread(input))
ForumAnalyzeThread == Apply("forum.analyze_thread", Forum_analyze_thread(input))

NextAnalyzers ==
    \/ ForumAggregate
    \/ TwitterAggregate
    \/ DiscordAnalyzeMessages
    \/ DiscordAnalyzeThread
    \/ ForumAnalyzeThread

SpecAnalyzers == InitAnalyzers /\ [][NextAnalyzers]_vars

(***************************************************************************)
(* SpecFaults: the analyzers on batches in which a model may raise on some *)
(* message.  Every text here passes every length filter.                   *)
(***************************************************************************)
FaultTexts ==
    {Text(8, 8, 6, 2), Text(8, 8, -6, -2),
     Failing(Text(8, 8, 6, 2), "vader"), Failing(Text(8, 8, -6, -2), "textblob")}

FaultBatches ==
    UNION {[1..k -> {Message(content, "alice", 1, 0, 1) : content \in FaultTexts}] : k \in 1..MaxBatch}

InitFaults ==
    /\ ApiIdle
    /\ input \in FaultBatches
    /\ output = Idle

SpecFaults == InitFaults /\ [][NextAnalyzers]_vars

(***************************************************************************)
(* SpecClassifiers: the per-message classifiers applied to one text, the   *)
(* models returning any pair of outputs or raising.                        *)
(***************************************************************************)
\* on a blank text the models, when called, find nothing: both return 0
SoundTexts ==
    {text \in ScorerTexts : IsBlank(text) => (text.compound = 0 /\ text.polarity = 0)}

ClassifierTexts ==
    SoundTexts \cup {Failing(text, model) : text \in SoundTexts, model \in {"vader", "textblob"}}

InitClassifiers ==
    /\ ApiIdle
    /\ input \in ClassifierTexts
    /\ output = Idle

ScoreText == Apply("analyze_text", analyze_text(input))
DiscordAnalyzeMessage == ~input.none /\ Apply("discord.analyze_message", analyze_message(input))
ForumAnalyzeSentiment == ~input.none /\ Apply("forum._analyze_sentiment", _analyze_sentiment(input))
DiscordAnalyzeSentiment == ~input.none /\ Apply("discord.analyze_sentiment", analyze_sentiment(input))

NextClassifiers ==
    \/ ScoreText
    \/ DiscordAnalyzeMessage
    \/ ForumAnalyzeSentiment
    \/ DiscordAnalyzeSentiment

SpecClassifiers == InitClassifiers /\ [][NextClassifiers]_vars

(***************************************************************************)
(* SpecTrend: _get_sentiment_trend applied to two scores of [-1, 1], in    *)
(* steps of 1/TrendGrid.                                                   *)
(***************************************************************************)
(* The analyzers on batches of up to MaxAccounts messages from as many     *)
(* accounts: message i is from account i or from the account the cycle of  *)
(* Resolved gives it, which is absent, None or empty for three in four.    *)
(***************************************************************************)
MaxAccounts == 6
Accounts == <<"ann", "ben", "cat", "dan", "eve", "fay", "gus", "hal">>
Resolved == <<"ann", Missing, None, "">>
Posted ==
    << <<Text(8, 8, 6, 2), 3, 0>>, <<Text(8, 8, -6, -2), 1, 1>>,
       <<Text(8, 8, 8, 4), 0, 0>>, <<Text(8, 8, 2, 0), 2, 2>> >>
Cycle(s, i) == s[((i - 1) % Len(s)) + 1]

AccountMessage(i, choice) ==
    LET post == Cycle(Posted, i + (choice % 2))
        author == IF choice < 2 THEN Accounts[i] ELSE Cycle(Resolved, i)
    IN  Message(post[1], author, post[2], post[3], i)

InitAccounts ==
    /\ ApiIdle
    /\ \E k \in 1..MaxAccounts : \E choice \in [1..k -> 0..3] :
           input = [i \in 1..k |-> AccountMessage(i, choice[i])]
    /\ output = Idle

SpecAccounts == InitAccounts /\ [][NextAnalyzers]_vars

(***************************************************************************)
(* The analyzers on batches whose texts the models score at the ends of    *)
(* their range, with and without engagement.                               *)
(***************************************************************************)
ExtremeTexts ==
    {Text(8, 8, c, p) : c \in {-Grid, Grid}, p \in {-Grid, Grid}} \cup {Text(8, 8, 0, 0)}
ExtremeMessages ==
    {Message(t, "alice", e[1], e[2], 1) : t \in ExtremeTexts, e \in {<<0, 0>>, <<5, 2>>}}
InitExtremes ==
    /\ ApiIdle
    /\ input \in UNION {[1..k -> ExtremeMessages] : k \in 1..MaxBatch}
    /\ output = Idle

SpecExtremes == InitExtremes /\ [][NextAnalyzers]_vars

(***************************************************************************)
TrendScores == (-TrendGrid)..TrendGrid

InitTrend ==
    /\ ApiIdle
    /\ input \in TrendScores \X TrendScores
    /\ output = Idle

GetSentimentTrend ==
    /\ output = Idle
    /\ output' = [op |-> "_get_sentiment_trend",
                  result |-> [i \in 1..2 |-> _get_sentiment_trend(Rat(input[i], TrendGrid))]]
    /\ UNCHANGED <<input, apiVars>>

NextTrend == GetSentimentTrend

SpecTrend == InitTrend /\ [][NextTrend]_vars

(***************************************************************************)
(* SpecVotes: up to MaxRequests create_vote requests, in any interleaving  *)
(* of their database calls, each of which may fail.                        *)
(***************************************************************************)
InitVotes ==
    /\ ApiIdle
    /\ input = <<>>
    /\ output = Idle

CreateVoteInsert ==
    \E r \in 1..MaxRequests, vote \in VoteRequests, db_ok \in BOOLEAN :
        create_vote_insert(r, vote, db_ok)

CreateVoteSelect ==
    \E r \in 1..MaxRequests, db_ok \in BOOLEAN : create_vote_select(r, db_ok)

CreateVoteUpdate ==
    \E r \in 1..MaxRequests, db_ok \in BOOLEAN : create_vote_update(r, db_ok)

NextVotes ==
    \/ CreateVoteInsert
    \/ CreateVoteSelect
    \/ CreateVoteUpdate

SpecVotes == InitVotes /\ [][NextVotes]_vars

(***************************************************************************)
(* C1.  For every text that is not blank, whatever the two models return,  *)
(* analyze_text labels it 'positive' exactly when combined_score >= 0.2,   *)
(* 'negative' exactly when combined_score <= -0.2, 'neutral' otherwise:    *)
(* both boundaries are inclusive.                                          *)
(***************************************************************************)
C1_LabelThresholds ==
    (output.op = "analyze_text" /\ ~IsBlank(input)) =>
        LET r == output.result
            cs == r.combined_score
        IN  /\ (r.sentiment = "positive") <=> (5 * cs.n >= cs.d)
            /\ (r.sentiment = "negative") <=> (5 * cs.n <= -cs.d)
            /\ (r.sentiment = "neutral") <=> (5 * cs.n < cs.d /\ 5 * cs.n > -cs.d)
            /\ r.sentiment \in {"positive", "negative", "neutral"}

\* a text scored exactly 0.2, labelled positive
C1_Witness ==
    /\ output.op = "analyze_text"
    /\ ~IsBlank(input)
    /\ RatEq(output.result.combined_score, Rat(2, 10))
    /\ output.result.sentiment = "positive"

(***************************************************************************)
(* C2.  For every batch from which at least one message is scored, the     *)
(* three label counts of the aggregate add up to the number of scored      *)
(* messages and the three ratios add up to 1: aggregate_scores (as the     *)
(* Forum analyzer uses it), the Twitter aggregate_messages and the backend *)
(* Discord analyze_messages.  The counts of the first two are the          *)
(* numerators of their ratios over the message total.                      *)
(***************************************************************************)
ScoredByDiscord == Cardinality({i \in DOMAIN input : input[i].content.trimmed >= 3})

C2_EngineRatios(r, total) ==
    /\ total = Len(input)
    /\ r.positive_ratio.d = total /\ r.negative_ratio.d = total /\ r.neutral_ratio.d = total
    /\ r.positive_ratio.n + r.negative_ratio.n + r.neutral_ratio.n = total

C2_DiscordCounts(r) ==
    /\ r.message_count = ScoredByDiscord
    /\ r.positive_count + r.negative_count + r.neutral_count = r.message_count

\* the claim as stated: the backend Discord ratios add up to exactly 1 too
C2_Original ==
    /\ (output.op = "forum.aggregate_messages" /\ input # <<>>) =>
           C2_EngineRatios(output.result, output.result.total_messages)
    /\ (output.op = "twitter.aggregate_messages" /\ input # <<>>) =>
           C2_EngineRatios(output.result, output.result.total_tweets)
    /\ (output.op = "discord.analyze_messages" /\ ScoredByDiscord > 0) =>
           /\ C2_DiscordCounts(output.result)
           /\ output.result.positive_ratio + output.result.negative_ratio
                  + output.result.neutral_ratio = Scale4

\* C2 as amended: each backend Discord ratio is rounded to 4 decimals, and
\* their sum is within 0.0001 of 1
C2_CountsAndRatios ==
    /\ (output.op = "forum.aggregate_messages" /\ input # <<>>) =>
           C2_EngineRatios(output.result, output.result.total_messages)
    /\ (output.op = "twitter.aggregate_messages" /\ input # <<>>) =>
           C2_EngineRatios(output.result, output.result.total_tweets)
    /\ (output.op = "discord.analyze_messages" /\ ScoredByDiscord > 0) =>
           /\ C2_DiscordCounts(output.result)
           /\ Abs(output.result.positive_ratio + output.result.negative_ratio
                  + output.result.neutral_ratio - Scale4) <= 1

\* three scored Discord messages, one of each label: 0.3333 three times
C2_Witness ==
    /\ output.op = "discord.analyze_messages"
    /\ output.result.message_count = 3
    /\ output.result.positive_count = 1
    /\ output.result.negative_count = 1
    /\ output.result.neutral_count = 1
    /\ output.result.positive_ratio + output.result.negative_ratio
           + output.result.neutral_ratio = Scale4 - 1

(***************************************************************************)
(* C3.  On the empty batch every source analyzer returns, without raising, *)
(* the empty aggregate: the message total is 0, every count and every      *)
(* ratio the result carries is 0, and the average sentiment is 0.          *)
(***************************************************************************)
AnalyzerOps ==
    {"forum.aggregate_messages", "twitter.aggregate_messages", "discord.analyze_messages",
     "discord.analyze_thread", "forum.analyze_thread"}
TotalFields == {"total_messages", "total_tweets", "message_count"}
AverageFields == {"avg_sentiment", "sentiment_score"}
CountFields ==
    TotalFields \cup {"positive_count", "negative_count", "neutral_count",
                      "total_engagement", "unique_authors", "sentiment_score"}
RatioFields ==
    {"positive_ratio", "negative_ratio", "neutral_ratio", "avg_sentiment",
     "std_sentiment_sq", "avg_engagement_per_tweet", "avg_posts_per_author"}

AggregateAnswered == resp.op = "get_aggregated_sentiment" /\ resp.status = 200
AnalysisAnswered == resp.op = "get_sentiment_analysis" /\ resp.status = 200

\* the stored rows of a proposal, and those of one source of it
RowsOf(proposal_id) == SelectSeq(store, LAMBDA s : s.proposal_id = proposal_id)
RowsOfSource(proposal_id, source) ==
    SelectSeq(store, LAMBDA s : s.proposal_id = proposal_id
                                    /\ (source = None \/ s.source = source))

MessageSum(rows) == SumSeq([i \in DOMAIN rows |-> rows[i].message_count])
ScoreSum(rows) == SumSeq([i \in DOMAIN rows |-> rows[i].sentiment_score * rows[i].message_count])

(***************************************************************************)
(* C4 as stated: with total_messages > 0, both aggregations report         *)
(* total_messages = sum of message_count and aggregated sentiment exactly  *)
(* sum(sentiment_score * message_count) / total_messages.                  *)
(***************************************************************************)
C4_Original ==
    /\ AggregateAnswered =>
           LET rows == RowsOf(resp.proposal_id)
           IN  MessageSum(rows) > 0 =>
                   /\ resp.data.total_messages_analyzed = MessageSum(rows)
                   /\ resp.data.aggregated_sentiment_score * MessageSum(rows) = ScoreSum(rows)
    /\ AnalysisAnswered =>
           LET rows == RowsOfSource(resp.proposal_id, resp.source_filter)
           IN  (Len(rows) > 1 /\ MessageSum(rows) > 0) =>
                   /\ resp.data.total_messages = MessageSum(rows)
                   /\ resp.data.aggregated_sentiment * MessageSum(rows) = ScoreSum(rows)

(***************************************************************************)
(* C4 as amended: with total_messages > 0, both aggregations report        *)
(* total_messages = sum of message_count, and as aggregated sentiment the  *)
(* weighted mean rounded to 4 decimals: within 0.00005 of                  *)
(* sum(sentiment_score * message_count) / total_messages.                  *)
(***************************************************************************)
C4_RoundedWeightedMean ==
    /\ AggregateAnswered =>
           LET rows == RowsOf(resp.proposal_id)
           IN  MessageSum(rows) > 0 =>
                   /\ resp.data.total_messages_analyzed = MessageSum(rows)
                   /\ 2 * Abs(resp.data.aggregated_sentiment_score * MessageSum(rows)
                                  - ScoreSum(rows)) <= MessageSum(rows)
    /\ AnalysisAnswered =>
           LET rows == RowsOfSource(resp.proposal_id, resp.source_filter)
           IN  (Len(rows) > 1 /\ MessageSum(rows) > 0) =>
                   /\ resp.data.total_messages = MessageSum(rows)
                   /\ 2 * Abs(resp.data.aggregated_sentiment * MessageSum(rows)
                                  - ScoreSum(rows)) <= MessageSum(rows)

\* two sources of different weight, whose mean 5/15 is not a multiple of 0.0001
C4_Witness ==
    /\ AggregateAnswered
    /\ Len(RowsOf(resp.proposal_id)) = 2
    /\ resp.data.total_messages_analyzed = 15
    /\ resp.data.aggregated_sentiment_score = 3333

(***************************************************************************)
(* C5.  _get_sentiment_trend gives every score of [-1, 1] the label of its *)
(* band: 'Very Positive' from 0.5, 'Positive' in [0.2, 0.5), 'Neutral' in  *)
(* [-0.2, 0.2), 'Negative' in [-0.5, -0.2), 'Very Negative' below -0.5;    *)
(* and of two scores the greater never has the lower label.                *)
(***************************************************************************)
TrendRank(label) ==
    CASE label = "Very Negative" -> 1
      [] label = "Negative" -> 2
      [] label = "Neutral" -> 3
      [] label = "Positive" -> 4
      [] label = "Very Positive" -> 5

\* the band of the score a / TrendGrid, by the claim's intervals
TrendBand(a) ==
    CASE 2 * a >= TrendGrid -> "Very Positive"
      [] 5 * a >= TrendGrid /\ 2 * a < TrendGrid -> "Positive"
      [] 5 * a >= -TrendGrid /\ 5 * a < TrendGrid -> "Neutral"
      [] 2 * a >= -TrendGrid /\ 5 * a < -TrendGrid -> "Negative"
      [] 2 * a < -TrendGrid -> "Very Negative"

C5_TrendBands ==
    output.op = "_get_sentiment_trend" =>
        /\ \A i \in 1..2 : output.result[i] = TrendBand(input[i])
        /\ input[1] <= input[2] => TrendRank(output.result[1]) <= TrendRank(output.result[2])

\* the two inclusive lower boundaries 0.2 and 0.5 have been labelled
C5_Witness ==
    /\ output.op = "_get_sentiment_trend"
    /\ 5 * input[1] = TrendGrid
    /\ 2 * input[2] = TrendGrid
    /\ output.result = <<"Positive", "Very Positive">>

(***************************************************************************)
(* C6.  get_aggregated_sentiment returns the same result (score, total,    *)
(* ratios, trend, sources_count, by_source) for every order of the same    *)
(* rows.                                                                   *)
(***************************************************************************)
C6_OrderIndependent ==
    AggregateAnswered =>
        LET rows == RowsOf(resp.proposal_id)
        IN  \A order \in Orders(Len(rows)) :
                AggregatedResult(resp.proposal_id, Permuted(rows, order)) = resp.data

(***************************************************************************)
(* C7.  A row with message_count 0 is excluded from the aggregate: the     *)
(* answer has the aggregated score, total and trend of the rows that have  *)
(* messages, and no more sources than they have.                           *)
(***************************************************************************)
WithMessages(rows) == SelectSeq(rows, LAMBDA s : s.message_count > 0)

C7_ZeroSourceExcluded ==
    AggregateAnswered =>
        LET rows == WithMessages(RowsOf(resp.proposal_id))
            without == AggregatedResult(resp.proposal_id, rows)
        IN  rows # <<>> =>
                /\ resp.data.aggregated_sentiment_score = without.aggregated_sentiment_score
                /\ resp.data.total_messages_analyzed = without.total_messages_analyzed
                /\ resp.data.sentiment_trend = without.sentiment_trend
                /\ resp.data.sources_count <= without.sources_count

(***************************************************************************)
(* C8.  When the rows have total_messages = 0, get_aggregated_sentiment    *)
(* returns aggregated sentiment 0, trend 'Neutral' and an empty per-source *)
(* map.                                                                    *)
(***************************************************************************)
C8_NoMessagesEmptyResult ==
    (AggregateAnswered /\ MessageSum(RowsOf(resp.proposal_id)) = 0) =>
        /\ resp.data.aggregated_sentiment_score = 0
        /\ resp.data.sentiment_trend = "Neutral"
        /\ DOMAIN resp.data.by_source = {}

(***************************************************************************)
(* C9.  The result of analyze_and_save after a failed fetch of the forum   *)
(* source, or else the row it saves, differs from the one after a fetch    *)
(* that succeeded and returned no posts.                                   *)
(***************************************************************************)
AtNoTime(r) == [r EXCEPT !.analyzed_at = 0]

C9_FailedFetchDistinguished ==
    (resp.op = "forum.analyze_and_save" /\ resp.fetch = "failed") =>
        LET empty == Forum_analyze_proposal_discussion(resp.proposal_id, resp.thread_id, <<>>)
        IN  \/ AtNoTime(resp.sentiment_analysis) # AtNoTime(empty)
            \/ /\ resp.save_result.status = "success"
               /\ AtNoTime(resp.save_result.data)
                      # AtNoTime(SavedRow(resp.proposal_id, "forum", empty))

ModelRaises(text) == text.vader_raises \/ text.blob_raises

C11_ModelFailureContained ==
    (/\ output.op \in {"forum.aggregate_messages", "twitter.aggregate_messages",
                       "discord.analyze_messages", "forum.analyze_thread"}
     /\ \E i \in DOMAIN input : ModelRaises(input[i].content)) =>
        /\ ~IsRaised(output.result)
        /\ \A k \in TotalFields \cap DOMAIN output.result : output.result[k] = Len(input)

(***************************************************************************)
(* C12.  In the backend Discord and Forum analyzers a message on which     *)
(* either model raises gets combined score 0 and classification 'neutral', *)
(* whatever the other model returned.                                      *)
(***************************************************************************)
C12_FailedModelNeutral ==
    (/\ output.op \in {"discord.analyze_message", "forum._analyze_sentiment"}
     /\ ModelRaises(input)) =>
        /\ output.result.sentiment_score.n = 0
        /\ output.result.classification = "neutral"

(***************************************************************************)
(* C13.  The backend Discord and Forum classifiers and the data-collection *)
(* Discord classifier label a message by the deadband of the shared        *)
(* scorer: 'positive' exactly when its combined score >= 0.2, 'negative'   *)
(* exactly when it is <= -0.2, 'neutral' otherwise.                        *)
(***************************************************************************)
Deadband(score) ==
    IF 10 * score.n >= 2 * score.d THEN "positive"
    ELSE IF 10 * score.n <= -2 * score.d THEN "negative"
    ELSE "neutral"

C13_SameDeadband ==
    /\ (output.op \in {"discord.analyze_message", "forum._analyze_sentiment"}) =>
           output.result.classification = Deadband(output.result.sentiment_score)
    /\ (output.op = "discord.analyze_sentiment" /\ ~IsRaised(output.result)) =>
           output.result.sentiment = Deadband(output.result.combined_score)

(***************************************************************************)
(* C14.  In every analyzer's aggregation a message whose trimmed text is   *)
(* shorter than the minimum length (3 at the least) is filtered out: the   *)
(* message total counts only the messages of at least that length, and so  *)
(* do the three label counts.                                              *)
(***************************************************************************)
LongEnough == Cardinality({i \in DOMAIN input : input[i].content.trimmed >= 3})

C14_ShortFiltered ==
    (output.op \in AnalyzerOps /\ input # <<>>) =>
        LET r == output.result
        IN  /\ \A k \in TotalFields \cap DOMAIN r : r[k] <= LongEnough
            /\ "neutral_count" \in DOMAIN r =>
                   r.positive_count + r.negative_count + r.neutral_count <= LongEnough

(***************************************************************************)
(* C15.  On a non-empty batch             of which no message survives the    *)
(* length filter, the backend Discord analyze_messages and the             *)
(* data-collection Discord analyze_thread return a result equal field for  *)
(* field to the one they return for [].                                    *)
(***************************************************************************)
NoneSurvives ==
    /\ input # <<>>
    /\ \/ /\ output.op = "discord.analyze_messages"
          /\ \A i \in DOMAIN input : input[i].content.trimmed < 3
       \/ /\ output.op = "discord.analyze_thread"
          /\ \A i \in DOMAIN input : input[i].content.none \/ input[i].content.len < 5

OfEmptyBatch ==
    IF output.op = "discord.analyze_messages" THEN analyze_messages(<<>>)
    ELSE Discord_analyze_thread(<<>>)

C15_SameAsEmptyBatch == NoneSurvives => output.result = OfEmptyBatch

(***************************************************************************)
(* C16.  On a non-empty batch of tweets that all have likes = 0 and        *)
(* retweets = 0, the Twitter aggregate_messages does not fail with a       *)
(* division by zero and returns avg_sentiment 0 and total_engagement 0,    *)
(* whatever the combined scores of the tweets are.                         *)
(***************************************************************************)
NoEngagement ==
    /\ output.op = "twitter.aggregate_messages"
    /\ input # <<>>
    /\ \A i \in DOMAIN input : input[i].likes = 0 /\ input[i].retweets = 0

C16_ZeroEngagementZeroAverage ==
    NoEngagement =>
        /\ ~IsRaised(output.result)
        /\ RatIsZero(output.result.avg_sentiment)
        /\ output.result.total_engagement = 0

\* two tweets without engagement, one of them scored away from 0
C16_Witness ==
    /\ NoEngagement
    /\ Len(input) >= 2
    /\ \E i \in DOMAIN input :
           ~RatIsZero(analyze_text(input[i].content).combined_score)

(***************************************************************************)
(* What a ranking by author is measured against: the account a message is  *)
(* attributed to, the messages of an account, the sum of their combined    *)
(* scores (in 1/(2 * Grid)) and of their likes and retweets.               *)
(***************************************************************************)
AuthorOf(i) == IF input[i].author \in {Missing, None, ""} THEN "unknown" ELSE input[i].author
AllAuthors == {AuthorOf(i) : i \in DOMAIN input}
PostsOf(a) == {i \in DOMAIN input : AuthorOf(i) = a}

RECURSIVE ScoreOver(_)
ScoreOver(S) ==
    IF S = {} THEN 0
    ELSE LET i == CHOOSE i \in S : TRUE
         IN  analyze_text(input[i].content).combined_score.n + ScoreOver(S \ {i})

RECURSIVE EngagementOver(_)
EngagementOver(S) ==
    IF S = {} THEN 0
    ELSE LET i == CHOOSE i \in S : TRUE
         IN  input[i].likes + input[i].retweets + EngagementOver(S \ {i})

Listed(entries) == {entries[k].author : k \in DOMAIN entries}
OnePerAuthor(entries) ==
    /\ Listed(entries) \subseteq AllAuthors
    /\ \A k, l \in DOMAIN entries : k # l => entries[k].author # entries[l].author

(***************************************************************************)
(* C17.  The Forum aggregate_messages returns top_positive_authors with at *)
(* most 3 entries, one per distinct author, in non-increasing order of the *)
(* author's mean combined score; each entry carries that author's exact    *)
(* mean and message count, and no author left out has a strictly higher    *)
(* mean than a listed one.                                                 *)
(***************************************************************************)
C17_TopPositiveAuthors ==
    (output.op = "forum.aggregate_messages" /\ input # <<>>) =>
        LET top == output.result.top_positive_authors
            count(a) == Cardinality(PostsOf(a))
        IN  /\ Len(top) <= 3
            /\ OnePerAuthor(top)
            /\ \A k, l \in DOMAIN top :
                   k < l => RatGE(top[k].avg_sentiment, top[l].avg_sentiment)
            /\ \A k \in DOMAIN top :
                   /\ top[k].message_count = count(top[k].author)
                   /\ RatEq(top[k].avg_sentiment,
                            Rat(ScoreOver(PostsOf(top[k].author)),
                                2 * Grid * count(top[k].author)))
            /\ \A a \in AllAuthors \ Listed(top) : \A b \in Listed(top) :
                   ScoreOver(PostsOf(a)) * count(b) <= ScoreOver(PostsOf(b)) * count(a)

\* more than three authors, three listed, the first with two messages and
\* strictly ahead of the last
C17_Witness ==
    /\ output.op = "forum.aggregate_messages"
    /\ Cardinality(AllAuthors) > 3
    /\ Len(output.result.top_positive_authors) = 3
    /\ output.result.top_positive_authors[1].message_count = 2
    /\ RatGT(output.result.top_positive_authors[1].avg_sentiment,
             output.result.top_positive_authors[3].avg_sentiment)

(***************************************************************************)
(* C18.  The Twitter aggregate_messages returns influential_accounts with  *)
(* at most 5 entries, one per distinct author, in non-increasing order of  *)
(* influence_score; influence_score is the mean combined score of the      *)
(* author's tweets times the sum of their likes and retweets over 100,     *)
(* tweet_count is the number of the author's tweets, and no author left    *)
(* out has a strictly higher influence_score than a listed one.            *)
(***************************************************************************)
Influence(a) ==
    Rat(ScoreOver(PostsOf(a)) * EngagementOver(PostsOf(a)),
        2 * Grid * Cardinality(PostsOf(a)) * 100)

C18_InfluentialAccounts ==
    (output.op = "twitter.aggregate_messages" /\ input # <<>>) =>
        LET top == output.result.influential_accounts
        IN  /\ Len(top) <= 5
            /\ OnePerAuthor(top)
            /\ \A k, l \in DOMAIN top :
                   k < l => RatGE(top[k].influence_score, top[l].influence_score)
            /\ \A k \in DOMAIN top :
                   /\ top[k].tweet_count = Cardinality(PostsOf(top[k].author))
                   /\ RatEq(top[k].influence_score, Influence(top[k].author))
            /\ \A a \in AllAuthors \ Listed(top) : \A b \in Listed(top) :
                   RatLE(Influence(a), Influence(b))

\* six accounts, five listed, the order of influence differing from the
\* order of mean sentiment
C18_Witness ==
    /\ output.op = "twitter.aggregate_messages"
    /\ Cardinality(AllAuthors) > 5
    /\ Len(output.result.influential_accounts) = 5
    /\ \E k, l \in DOMAIN output.result.influential_accounts :
           /\ k < l
           /\ RatGT(output.result.influential_accounts[k].influence_score,
                    output.result.influential_accounts[l].influence_score)
           /\ RatLT(output.result.influential_accounts[k].avg_sentiment,
                    output.result.influential_accounts[l].avg_sentiment)

(***************************************************************************)
(* C19.  A message whose author is missing, None or empty is attributed to *)
(* the bucket "unknown": no entry of the Forum top_positive_authors, of    *)
(* the Twitter influential_accounts or of the backend Discord list of      *)
(* analyzed messages carries a null or an empty author.                    *)
(***************************************************************************)
PerAuthorEntries ==
    IF output.op = "forum.aggregate_messages" THEN output.result.top_positive_authors
    ELSE IF output.op = "twitter.aggregate_messages" THEN output.result.influential_accounts
    ELSE IF output.op = "discord.analyze_messages" THEN output.result.messages
    ELSE <<>>

C19_UnknownBucket ==
    \A k \in DOMAIN PerAuthorEntries :
        /\ PerAuthorEntries[k].author \notin {Missing, None, ""}
        /\ PerAuthorEntries[k].author \in AllAuthors

(***************************************************************************)
(* C20.  analyze_text does not fail on degenerate text: for an empty, None *)
(* or whitespace-only text it returns the fixed neutral score (vader_neu   *)
(* 1.0, every other number 0, 'neutral', confidence 0) and calls neither   *)
(* model, so that a model that would raise on the text changes nothing;    *)
(* the score it returns for any other text has combined_score =            *)
(* (vader_compound + textblob_polarity) / 2 and confidence =               *)
(* abs(combined_score).                                                    *)
(***************************************************************************)
Degenerate == input.none \/ input.trimmed = 0

C20_DegenerateTextNeutral ==
    output.op = "analyze_text" =>
        LET r == output.result
        IN  IF Degenerate
            THEN /\ ~IsRaised(r)
                 /\ r.vader_neu = Grid
                 /\ r.vader_compound = 0 /\ r.vader_pos = 0 /\ r.vader_neg = 0
                 /\ r.textblob_polarity = 0 /\ r.textblob_subjectivity = 0
                 /\ RatIsZero(r.combined_score) /\ RatIsZero(r.confidence)
                 /\ r.sentiment = "neutral"
            ELSE ~IsRaised(r) =>
                 /\ RatEq(r.combined_score, Rat(r.vader_compound + r.textblob_polarity, 2 * Grid))
                 /\ RatEq(r.confidence, Rat(Abs(r.combined_score.n), r.combined_score.d))
                 /\ r.vader_compound = input.compound
                 /\ r.textblob_polarity = input.polarity

\* a whitespace-only text on which a model would raise was scored
C20_Witness ==
    /\ output.op = "analyze_text"
    /\ ~input.none /\ input.len > 0 /\ input.trimmed = 0
    /\ input.vader_raises
    /\ output.result.sentiment = "neutral"

(***************************************************************************)
(* C21.  aggregate_scores, which the Forum aggregate_messages applies to   *)
(* the scores of the messages in their order, reports the trend improving  *)
(* exactly when the last score is strictly greater than the mean of all    *)
(* the scores and declining otherwise, so for one score and for equal      *)
(* scores; neutral only for no score.                                      *)
(***************************************************************************)
CombinedOf(i) == analyze_text(input[i].content).combined_score
LastExceedsMean ==
    CombinedOf(Len(input)).n * Len(input) > ScoreOver(DOMAIN input)

C21_TrendDirection ==
    output.op = "forum.aggregate_messages" =>
        output.result.sentiment_trend =
            IF input = <<>> THEN "neutral"
            ELSE IF LastExceedsMean THEN "improving"
            ELSE "declining"

(***************************************************************************)
(* C22.  For messages carrying distinct timestamps the Forum               *)
(* aggregate_messages reports the trend of the messages sorted by          *)
(* timestamp: the score compared against the mean is that of the message   *)
(* with the latest timestamp, wherever it stands in the input list (a      *)
(* latest score equal to the mean, the case of claim C21, is left aside);  *)
(* the total and the three ratios are those of the messages as a set.      *)
(***************************************************************************)
DistinctTimestamps ==
    \A i, j \in DOMAIN input : i # j => input[i].timestamp # input[j].timestamp
Latest == CHOOSE i \in DOMAIN input : \A j \in DOMAIN input : input[j].timestamp <= input[i].timestamp
Labelled(label) ==
    Cardinality({i \in DOMAIN input : analyze_text(input[i].content).sentiment = label})

C22_TrendByTimestamp ==
    (output.op = "forum.aggregate_messages" /\ input # <<>> /\ DistinctTimestamps) =>
        LET r == output.result
            latest == CombinedOf(Latest).n * Len(input)
        IN  /\ RatEq(r.avg_sentiment, Rat(ScoreOver(DOMAIN input), 2 * Grid * Len(input)))
            /\ RatEq(r.positive_ratio, Rat(Labelled("positive"), Len(input)))
            /\ RatEq(r.negative_ratio, Rat(Labelled("negative"), Len(input)))
            /\ RatEq(r.neutral_ratio, Rat(Labelled("neutral"), Len(input)))
            /\ latest > ScoreOver(DOMAIN input) => r.sentiment_trend = "improving"
            /\ latest < ScoreOver(DOMAIN input) => r.sentiment_trend = "declining"

(***************************************************************************)
(* C23.  The two queries are pure: get_sentiment_analysis and              *)
(* get_aggregated_sentiment leave the rows of the table as they are, and a *)
(* query answered 200 right after the same query of the same proposal was  *)
(* answered 200, no write in between, returns the same result.             *)
(***************************************************************************)
Queries == {"get_sentiment_analysis", "get_aggregated_sentiment"}
SameQuery(first, second) ==
    /\ first.op \in Queries /\ second.op = first.op
    /\ first.proposal_id = second.proposal_id
    /\ first.op = "get_sentiment_analysis" => first.source_filter = second.source_filter
    /\ first.status = 200 /\ second.status = 200

C23_QueriesPure ==
    [][/\ resp'.op \in Queries => store' = store
       /\ SameQuery(resp, resp') => resp'.data = resp.data]_vars

(***************************************************************************)
(* C24.  Whatever the models return in [-1,1] and whatever the likes and   *)
(* retweets, every score an analyzer returns lies in [-1,1]: the           *)
(* per-message scores (weighted 0.3/0.7 by the backend Discord analyzer,   *)
(* 0.4/0.6 by the backend Forum analyzer, 0.5/0.5 by the engine, seen in   *)
(* the per-author means) and every avg_sentiment and sentiment_score, the  *)
(* engagement-weighted one of Twitter included.                            *)
(***************************************************************************)
\* the scores of a result that are fractions: the averages and the scores
\* of its per-message and per-author entries
ScoreFields == {"avg_sentiment", "sentiment_score"}
EntryScores(entries) ==
    UNION {{entries[i][f] : f \in ScoreFields \cap DOMAIN entries[i]} : i \in DOMAIN entries}
ScoresOf(result) ==
    {result[k] : k \in {"avg_sentiment"} \cap DOMAIN result}
    \cup UNION {EntryScores(result[k]) :
                k \in {"messages", "analyzed_posts", "top_positive_authors",
                       "influential_accounts"} \cap DOMAIN result}

C24_ScoresInRange ==
    output.op \in AnalyzerOps =>
        /\ \A score \in ScoresOf(output.result) :
               RatLE(score, Rat(1, 1)) /\ RatGE(score, Rat(-1, 1))
        \* sentiment_score of a batch is rounded, a count of 1/Scale4
        /\ "sentiment_score" \in DOMAIN output.result =>
               -Scale4 <= output.result.sentiment_score /\ output.result.sentiment_score <= Scale4

\* three messages at the upper end, the backend Discord score at 1
C24_Witness ==
    /\ output.op = "discord.analyze_messages"
    /\ Len(input) = 3
    /\ output.result.sentiment_score = Scale4
    /\ \A k \in DOMAIN output.result.messages :
           RatEq(output.result.messages[k].sentiment_score, Rat(1, 1))

(***************************************************************************)
(* C25 as stated: after any requests and analyzer runs every row of the    *)
(* table has positive_count + negative_count + neutral_count =             *)
(* message_count, and a create_sentiment_analysis request whose counts do  *)
(* not add up is rejected with a 400 error and inserts no row.             *)
(***************************************************************************)
RowsCounted(rows) ==
    \A i \in DOMAIN rows :
        rows[i].positive_count + rows[i].negative_count + rows[i].neutral_count
            = rows[i].message_count
Miscounted ==
    {sentiment \in CreateRequests :
        sentiment.positive_count + sentiment.negative_count + sentiment.neutral_count
            # sentiment.message_count}

C25_Original ==
    [][/\ RowsCounted(store')
       /\ resp'.op = "create_sentiment_analysis" =>
              \A sentiment \in Miscounted, db_ok \in BOOLEAN :
                  create_sentiment_analysis(sentiment, db_ok) =>
                      resp'.status = 400 /\ store' = store]_vars

(***************************************************************************)
(* C25 as amended: every row of the table has positive_count +             *)
(* negative_count + neutral_count = message_count, and a request whose     *)
(* counts do not add up inserts no row and is rejected: with a 400 error   *)
(* when the database is configured and the request passes the validation   *)
(* of the request model, with 500 or 422 otherwise.                        *)
(***************************************************************************)
C25_RowsCounted ==
    [][/\ RowsCounted(store')
       /\ resp'.op = "create_sentiment_analysis" =>
              \A sentiment \in Miscounted, db_ok \in BOOLEAN :
                  create_sentiment_analysis(sentiment, db_ok) =>
                      /\ store' = store
                      /\ resp'.status =
                             IF ~ValidRequest(sentiment) THEN 422
                             ELSE IF ~supabase THEN 500
                             ELSE 400]_vars

\* a miscounted request was rejected while the table holds the row of an
\* analyzer run over messages
C25_Witness ==
    /\ resp.op = "create_sentiment_analysis" /\ resp.status = 400
    /\ \E i \in DOMAIN store : store[i].source = "discord" /\ store[i].message_count > 0

(***************************************************************************)
(* C26.  The Twitter aggregate_messages counts every tweet of a non-empty  *)
(* batch, those without engagement included: total_tweets is the number of *)
(* tweets, the result has an avg_sentiment, total_engagement is the sum of *)
(* likes + retweets over all the tweets and avg_engagement_per_tweet is    *)
(* total_engagement / total_tweets.                                        *)
(***************************************************************************)
C26_EveryTweetCounted ==
    (output.op = "twitter.aggregate_messages" /\ input # <<>>) =>
        LET r == output.result
        IN  /\ r.total_tweets = Len(input)
            /\ "avg_sentiment" \in DOMAIN r
            /\ r.total_engagement = EngagementOver(DOMAIN input)
            /\ RatEq(r.avg_engagement_per_tweet, Rat(EngagementOver(DOMAIN input), Len(input)))

\* three tweets, with and without engagement
C26_Witness ==
    /\ output.op = "twitter.aggregate_messages"
    /\ Len(input) = 3
    /\ \E i, j \in DOMAIN input :
           /\ input[i].likes + input[i].retweets = 0
           /\ input[j].likes + input[j].retweets > 0
    /\ output.result.total_tweets = 3

(***************************************************************************)
(* C27.  The Forum aggregate_messages reports as unique_authors the number *)
(* of distinct authors of a non-empty batch, which is the number of author *)
(* buckets it ranks for top_positive_authors (messages without an author   *)
(* are the one author "unknown"), and avg_posts_per_author times           *)
(* unique_authors is the number of messages.                               *)
(***************************************************************************)
C27_AuthorsCounted ==
    (output.op = "forum.aggregate_messages" /\ input # <<>>) =>
        LET r == output.result
        IN  /\ r.unique_authors = Cardinality(AllAuthors)
            /\ RatEq(r.avg_posts_per_author, Rat(Len(input), Cardinality(AllAuthors)))

RECURSIVE CountOver(_, _)
CountOver(by_source, sources) ==
    IF sources = {} THEN 0
    ELSE LET source == CHOOSE source \in sources : TRUE
         IN  by_source[source].message_count + CountOver(by_source, sources \ {source})

(***************************************************************************)
(* C28.  Whatever rows the saves and the create requests have stored,      *)
(* repeated saves of one source included, get_aggregated_sentiment reports *)
(* a total_messages_analyzed that is the sum of message_count over the     *)
(* entries of the by_source map it returns.                                *)
(***************************************************************************)
C28_TotalMatchesBySource ==
    (resp.op = "get_aggregated_sentiment" /\ resp.status = 200) =>
        resp.data.total_messages_analyzed =
            CountOver(resp.data.by_source, DOMAIN resp.data.by_source)

\* what get_aggregated_sentiment answers on the rows the last query read
Aggregated == AggregatedResult(resp.proposal_id, Matching(resp.proposal_id, None))

(***************************************************************************)
(* C29.  On the same stored rows and without a source filter,              *)
(* get_sentiment_analysis reports the sentiment score, the total message   *)
(* count, the number of sources and the trend label that                   *)
(* get_aggregated_sentiment reports, for one row as for several (rows of   *)
(* one source and rows without messages included).                         *)
(***************************************************************************)
C29_EndpointsAgree ==
    (/\ resp.op = "get_sentiment_analysis"
     /\ resp.status = 200
     /\ resp.source_filter = None) =>
        LET one == "sentiment_score" \in DOMAIN resp.data
            score == IF one THEN resp.data.sentiment_score ELSE resp.data.aggregated_sentiment
            total == IF one THEN resp.data.message_count ELSE resp.data.total_messages
            sources == IF one THEN 1 ELSE resp.data.sources
        IN  /\ score = Aggregated.aggregated_sentiment_score
            /\ total = Aggregated.total_messages_analyzed
            /\ sources = Aggregated.sources_count
            /\ resp.data.sentiment_trend = Aggregated.sentiment_trend

\* no create_vote request is between two of its database calls
NoVoteInFlight == \A r \in DOMAIN requests : requests[r].pc \in {"idle", "returned"}
VotesInserted(proposal_id) == Cardinality({i \in DOMAIN votes : votes[i].proposal_id = proposal_id})

(***************************************************************************)
(* C30.  Once the create_vote requests for an existing proposal have       *)
(* returned, in whatever interleaving they ran, the proposal's total_votes *)
(* is votes_for + votes_against + votes_abstain and has grown (from 0) by  *)
(* the number of vote rows inserted for it: no increment is lost.          *)
(***************************************************************************)
C30_NoLostVote ==
    NoVoteInFlight =>
        \A proposal_id \in DOMAIN proposals :
            LET current == proposals[proposal_id]
            IN  /\ current.total_votes =
                       current.votes_for + current.votes_against + current.votes_abstain
                /\ current.total_votes = VotesInserted(proposal_id)

=============================================================================
